---- MODULE Spec2Model ----
(***************************************************************************)
(* The idempotent append writer of src/app.py (atomic_append_row_csv) and  *)
(* its callers, as a state machine over a small file system.               *)
(*                                                                         *)
(* A table file is a header line and a sequence of text rows.  A pandas     *)
(* frame is a sequence of rows whose date is a string or NaN and whose      *)
(* value is a float (a caller's row) or a str (a row read with dtype=str).  *)
(* Date strings are the well-formed timestamps of the file format, ordered  *)
(* as their strings are: they are the numbers 1..MaxDate.  Strings that     *)
(* read_csv takes for a missing value ('NA', 'null', ...) are no dates of   *)
(* the format and are left out.  One value field stands for the             *)
(* observation fields (open, close).                                        *)
(*                                                                         *)
(* Around the writer: the FastAPI process of src/app.py, with the /run      *)
(* handler, the background worker and the startup and shutdown handlers on  *)
(* one asyncio event loop; and, apart from it, the scraper of src/test.py   *)
(* with its wide CSV file.                                                  *)
(***************************************************************************)
EXTENDS Integers, Sequences, FiniteSets

VARIABLES fs, c, lastRename, replayed,
          API_KEY, stop_background, background_task, lifecycle, worker, req,
          csv_file, scraper

\* The state of the FastAPI process of src/app.py around the writer, and the
\* state of the scraper of src/test.py.
serverVars == <<API_KEY, stop_background, background_task, lifecycle, worker, req>>
scraperVars == <<csv_file, scraper>>
vars == <<fs, c, lastRename, replayed, serverVars, scraperVars>>

\* ---------------------------------------------------------------- bounds
MaxDate == 2
MaxVal == 2
MaxBatch == 2
MaxRaceDate == 3
MaxPolls == 3

\* ------------------------------------------------------- values and cells
\* The missing value of a frame (a row built without its date field).
NaN == -1
\* What astype(str) makes of NaN: the text 'nan'.
NanStr == -2
\* The empty cell of a CSV line.
EmptyText == 0

Dates == 1..MaxDate
RaceDates == 1..MaxRaceDate
Vals == 1..MaxVal

\* The rows a caller can hand over: a date string or no date, and a float.
CallerRows == [date : Dates \cup {NaN}, val : Vals, num : {TRUE}]

\* Candidate batches: ordered sequences of rows, the frame without rows
\* included.
Batches == UNION {[1..n -> CallerRows] : n \in 0..MaxBatch}

\* ------------------------------------------------------------ file system
Callers == {1, 2}

\* Tickers are strings of characters.  TICKERS is the configured list (line
\* 28); /run takes any ticker, here one of RequestTickers.
TICKERS == << <<"A", ".", "B">>, <<"C">> >>
RequestTickers == {<<"A", ".", "B">>, <<"A", "_", "B">>, <<"C">>}

\* str.replace('.', '_') on a ticker.
replace_dot(ticker) ==
  [i \in 1..Len(ticker) |-> IF ticker[i] = "." THEN "_" ELSE ticker[i]]

\* Lines 36-37: the file of a ticker, under OUT_DIR and with CSV_SUFFIX.
ticker_fname(ticker) == <<"csv", replace_dot(ticker)>>

\* The table file of the key the writer is studied on.
Fname == ticker_fname(TICKERS[1])
CsvPaths == {ticker_fname(t) : t \in RequestTickers}
\* The temp names mkstemp can hand out: two for each caller.
TmpPaths == {<<"tmp", n>> : n \in 1..(2 * Cardinality(Callers))}
Paths == CsvPaths \cup TmpPaths

Absent == [header |-> "absent", rows |-> <<>>]
\* A file of zero bytes: what mkstemp creates; read_csv raises on it.
EmptyFile == [header |-> "none", rows |-> <<>>]
\* A readable CSV whose header has no date column.
NoDateFile == [header |-> "other", rows |-> <<>>]

Exists(path) == fs[path] # Absent

\* --------------------------------------------------- pandas, as the code uses it
\* pd.read_csv(fname, dtype=str): every cell a str, the empty cell NaN.
read_csv_skipfirst(f) ==
  [i \in 1..(Len(f.rows) - 1) |->
     [date |-> IF f.rows[i + 1].date = EmptyText THEN NaN ELSE f.rows[i + 1].date,
      val |-> f.rows[i + 1].val,
      num |-> FALSE]]
read_csv(f) ==
  [i \in 1..Len(f.rows) |->
     [date |-> IF f.rows[i].date = EmptyText THEN NaN ELSE f.rows[i].date,
      val |-> f.rows[i].val,
      num |-> FALSE]]

\* What line 85-87 does with the destination: no file, a frame, or an
\* exception (EmptyDataError from read_csv, KeyError from existing['date']).
ReadOutcomeSwallow(f) == IF f.header = "date" THEN "frame" ELSE "none"
ReadOutcome(f) ==
  IF f = Absent THEN "none"
  ELSE IF f.header = "date" THEN "frame"
  ELSE "raise"

\* Series.astype(str) on one cell.
astype_str(d) == IF d = NaN THEN NanStr ELSE d

\* set(existing['date'].astype(str).tolist())
existing_dates_none(frame) == {}
existing_dates(frame) == {astype_str(frame[i].date) : i \in 1..Len(frame)}

\* row_df[~row_df['date'].astype(str).isin(existing_dates)]
new_rows_nofilter(row_df, dates) == row_df
new_rows(row_df, dates) ==
  LET keep(r) == astype_str(r.date) \notin dates
  IN SelectSeq(row_df, keep)

\* DataFrame.drop_duplicates(subset=['date'], keep='last'): a row stays when
\* no later row has its date (NaN equals NaN there); the order is kept.
RECURSIVE drop_duplicates_from(_, _)
drop_duplicates_from(frame, i) ==
  IF i > Len(frame) THEN <<>>
  ELSE IF \E j \in (i+1)..Len(frame) : frame[j].date = frame[i].date
       THEN drop_duplicates_from(frame, i + 1)
       ELSE <<frame[i]>> \o drop_duplicates_from(frame, i + 1)

drop_duplicates(frame) == drop_duplicates_from(frame, 1)

\* The order sort_values('date') sorts by: strings ascending, NaN last.
DateLeq(a, b) == b = NaN \/ (a # NaN /\ a <= b)

\* DataFrame.sort_values('date'): ascending, na_position='last'.  Each row
\* is placed after the rows that sort before or with it; the code applies it
\* only after drop_duplicates, so no two rows tie.
RECURSIVE sort_prefix(_, _)
sort_prefix(frame, k) ==
  IF k = 0 THEN <<>>
  ELSE LET rest == sort_prefix(frame, k - 1)
           pos == Cardinality({j \in 1..Len(rest) :
                                 DateLeq(rest[j].date, frame[k].date)})
       IN SubSeq(rest, 1, pos) \o <<frame[k]>> \o SubSeq(rest, pos + 1, Len(rest))

sort_values(frame) == sort_prefix(frame, Len(frame))

\* pd.concat([existing, new_rows]) then drop_duplicates then sort_values
\* (lines 104-106).
combined_new(existing, new) == sort_values(drop_duplicates(new))
combined(existing, new) == sort_values(drop_duplicates(existing \o new))

\* DataFrame.to_csv(path, index=False): the header and one text line a row;
\* NaN is written as the empty cell, a float and a str as their text.
to_csv_noheader(frame) ==
  [header |-> "none",
   rows |-> [i \in 1..Len(frame) |->
               [date |-> IF frame[i].date = NaN THEN EmptyText ELSE frame[i].date,
                val |-> frame[i].val]]]
to_csv(frame) ==
  [header |-> "date",
   rows |-> [i \in 1..Len(frame) |->
               [date |-> IF frame[i].date = NaN THEN EmptyText ELSE frame[i].date,
                val |-> frame[i].val]]]

\* The first n lines of a file being written (the header is line 1).
Prefix(f, n) ==
  IF n = 0 THEN EmptyFile
  ELSE [header |-> f.header, rows |-> SubSeq(f.rows, 1, n - 1)]

NumLines(f) == 1 + Len(f.rows)

\* ------------------------------------------------------------ a caller
\* One invocation of atomic_append_row_csv: its position (pc), its locals
\* (row_df, existing, new_rows, tmp_path), and what it did: pre is the
\* destination's content when the call began, nw the lines to_csv has
\* written, ntmp and nrep the temp files created and the replaces done.
NoPath == <<"none", 0>>

IdleCaller ==
  [pc |-> "idle", crashed |-> FALSE, row_df |-> <<>>, pre |-> Absent,
   hadFile |-> FALSE, existing |-> <<>>, new_rows |-> <<>>,
   tmp_path |-> NoPath, nw |-> 0, ret |-> 0, exc |-> FALSE,
   ntmp |-> 0, nrep |-> 0, fname |-> NoPath]

\* What is remembered of the call before the current one, when that call
\* completed with the same batch: its result, and whether the batch's dates
\* were absent from the table it found.
NoReplay == [replay |-> FALSE, firstRet |-> 0, firstFresh |-> FALSE]

\* Whether no date of the batch is in the table f.
Fresh(batch, f) ==
  \A i \in 1..Len(batch) :
     astype_str(batch[i].date) \notin existing_dates(read_csv(f))

\* The table the call serializes: line 100, or lines 104-107.
OutputNewOnly(p) == to_csv(c[p].new_rows)
Output(p) ==
  IF c[p].hadFile
  THEN to_csv(combined(c[p].existing, c[p].new_rows))
  ELSE to_csv(c[p].new_rows)

\* The path to_csv writes to: the temp file of mkstemp.
WriteTargetDest(p) == Fname
WriteTarget(p) == c[p].tmp_path

\* tempfile.mkstemp creates a file under a fresh random name (prefix .tmp_)
\* that no other file has: every caller gets a name of its own, and another
\* one when a temp file of its earlier call is still there.
MkstempPathShared(p) == <<"tmp", 1>>
MkstempPath(p) ==
  IF Exists(<<"tmp", p>>) THEN <<"tmp", p + Cardinality(Callers)>>
  ELSE <<"tmp", p>>

\* ------------------------------------------------------------ actions
\* Lines 83-94: the call is entered with the path fname and the batch
\* row_df; it reads the table if the file exists, filters the batch, and
\* returns 0 when nothing is new.  An unreadable file raises out of the call.
CallOn(p, fname, batch) ==
  /\ c[p].pc \in {"idle", "done", "raised"}
  /\ ~c[p].crashed
  /\ LET f == fs[fname]
         o == ReadOutcome(f)
         had == o = "frame"
         ex == IF had THEN read_csv(f) ELSE <<>>
         nr == new_rows(batch, existing_dates(ex))
         entered == [IdleCaller EXCEPT !.row_df = batch, !.pre = f,
                                       !.fname = fname]
     IN c' = [c EXCEPT ![p] =
                IF o = "raise"
                THEN [entered EXCEPT !.pc = "raised", !.exc = TRUE]
                ELSE [entered EXCEPT
                        !.hadFile = had, !.existing = ex, !.new_rows = nr,
                        !.pc = IF nr = <<>> THEN "done" ELSE "mkstemp"]]
  /\ UNCHANGED <<fs, lastRename>>

\* A call on the table file of the studied key.
Call(p, batch) == CallOn(p, Fname, batch)

\* A caller of the writer with any batch of rows.
AppendCall(p) ==
  \E batch \in Batches :
     /\ Call(p, batch)
     /\ replayed' =
          IF c[p].pc = "done" /\ c[p].row_df = batch
          THEN [replay |-> TRUE, firstRet |-> c[p].ret,
                firstFresh |-> Fresh(batch, c[p].pre)]
          ELSE NoReplay

\* run_once (lines 128-131): one fetched candle, a one-row frame.
RunOnceCall(p) ==
  \E d \in RaceDates, v \in Vals :
     /\ Call(p, <<[date |-> d, val |-> v, num |-> TRUE]>>)
     /\ UNCHANGED replayed

\* Lines 96-97: mkstemp creates an empty file in the destination's directory.
Mkstemp(p) ==
  /\ c[p].pc = "mkstemp"
  /\ ~c[p].crashed
  /\ fs' = [fs EXCEPT ![MkstempPath(p)] = EmptyFile]
  /\ c' = [c EXCEPT ![p].tmp_path = MkstempPath(p), ![p].ntmp = @ + 1,
                    ![p].pc = "write"]
  /\ UNCHANGED <<lastRename, replayed>>

\* Lines 100 and 107: to_csv writes the table a line at a time.
WriteChunk(p) ==
  /\ c[p].pc = "write"
  /\ ~c[p].crashed
  /\ c[p].nw < NumLines(Output(p))
  /\ fs' = [fs EXCEPT ![WriteTarget(p)] = Prefix(Output(p), c[p].nw + 1)]
  /\ c' = [c EXCEPT ![p].nw = @ + 1,
                    ![p].pc = IF c[p].nw + 1 = NumLines(Output(p))
                              THEN "replace" ELSE "write"]
  /\ UNCHANGED <<lastRename, replayed>>

\* to_csv raises (the disk is full, the file cannot be written).
WriteFail(p) ==
  /\ c[p].pc = "write"
  /\ ~c[p].crashed
  /\ c' = [c EXCEPT ![p].exc = TRUE, ![p].pc = "finally"]
  /\ UNCHANGED <<fs, lastRename, replayed>>

\* Lines 101-102 and 108-109: os.replace moves the temp file onto the
\* destination in one step, and the call's result is len(new_rows).
\* os.replace raises when the temp file is not there.
Replace(p) ==
  /\ c[p].pc = "replace"
  /\ ~c[p].crashed
  /\ IF Exists(c[p].tmp_path)
     THEN /\ fs' = [fs EXCEPT ![c[p].tmp_path] = Absent,
                              ![c[p].fname] = fs[c[p].tmp_path]]
          /\ c' = [c EXCEPT ![p].nrep = @ + 1, ![p].ret = Len(c[p].new_rows),
                            ![p].pc = "finally"]
          /\ lastRename' = p
          /\ UNCHANGED replayed
     ELSE /\ c' = [c EXCEPT ![p].exc = TRUE, ![p].pc = "finally"]
          /\ UNCHANGED <<fs, lastRename, replayed>>

\* os.replace raises for another reason (permissions, the volume).
ReplaceFail(p) ==
  /\ c[p].pc = "replace"
  /\ ~c[p].crashed
  /\ c' = [c EXCEPT ![p].exc = TRUE, ![p].pc = "finally"]
  /\ UNCHANGED <<fs, lastRename, replayed>>

\* Lines 110-113: the finally block removes the temp file if it is still
\* there; then the call returns, or the exception goes on to the caller.
Finally(p) ==
  /\ c[p].pc = "finally"
  /\ ~c[p].crashed
  /\ fs' = IF Exists(c[p].tmp_path)
           THEN [fs EXCEPT ![c[p].tmp_path] = Absent] ELSE fs
  /\ c' = [c EXCEPT ![p].pc = IF c[p].exc THEN "raised" ELSE "done"]
  /\ UNCHANGED <<lastRename, replayed>>

\* Lines 111-113 when os.remove raises (the directory cannot be written):
\* the error is swallowed, the temp file stays, and the call ends as it would
\* have.  Followed once per caller, whose next temp file has the other name.
FinallyRemoveFails(p) ==
  /\ c[p].pc = "finally"
  /\ ~c[p].crashed
  /\ Exists(c[p].tmp_path)
  /\ c[p].tmp_path = <<"tmp", p>>
  /\ c' = [c EXCEPT ![p].pc = IF c[p].exc THEN "raised" ELSE "done"]
  /\ UNCHANGED <<fs, lastRename, replayed>>

\* The process is killed inside the call: nothing more of it runs, the
\* finally block included.
Crash(p) ==
  /\ c[p].pc \in {"mkstemp", "write", "replace", "finally"}
  /\ ~c[p].crashed
  /\ c' = [c EXCEPT ![p].crashed = TRUE]
  /\ UNCHANGED <<fs, lastRename, replayed>>

\* ------------------------------------------------------------ the server
\* Python's None, for API_KEY, the request's key and background_task.
None == "None"

\* The values of the API_KEY environment variable (line 27): not set, set
\* to the empty string, set to a key.
ApiKeys == {None, "", "k"}
\* The key query parameter of a request: missing, or a string.
RequestKeys == {None, "k", "x"}

\* ENABLE_BACKGROUND (line 30), at its default.
ENABLE_BACKGROUND == TRUE

\* The background task: not created ("nostart"), created and not yet run,
\* at the fetch of ticker i (line 151), inside the append for ticker i (line
\* 162), suspended in asyncio.sleep (line 169), ended by CancelledError
\* ("cancelled"), by leaving the loop ("returned"), by another exception
\* ("failed").
\* cancel is the pending cancellation request; seen and errs are the tickers
\* taken up and the errors met in the current poll round.
NoWorker == [pc |-> "nostart", i |-> 0, cancel |-> FALSE, seen |-> {}, errs |-> 0]

\* A /run request: idle, inside the append, or answered; with its
\* parameters, the status of the response, and whether it went to the fetch.
NoRequest == [pc |-> "idle", ticker |-> <<>>, key |-> None, status |-> 0,
              fetched |-> FALSE]

ServerOff ==
  /\ API_KEY = None
  /\ stop_background = FALSE
  /\ background_task = None
  /\ lifecycle = "init"
  /\ worker = NoWorker
  /\ req = NoRequest

ScraperOff ==
  /\ csv_file = <<>>
  /\ scraper = <<>>

\* `if API_KEY:` (line 119): None and the empty string count as not set.
Truthy(x) == x # None /\ x # ""

\* Lines 119-121: whether a request with this key is refused.
DeniedNever(key) == FALSE
Denied(key) == Truthy(API_KEY) /\ key # API_KEY

\* Lines 129 and 159: the one-row frame built from a fetched candle.
OneRow(d, v) == <<[date |-> d, val |-> v, num |-> TRUE]>>

\* The worker gives the event loop away only at `await asyncio.sleep` (line
\* 169), before its first step, and when it has ended.
WorkerYieldedAnywhere == TRUE
WorkerYielded ==
  worker.pc \in {"nostart", "created", "sleep", "cancelled", "returned", "failed"}

\* The event loop runs one coroutine at a time: another one is taken up only
\* when the worker is suspended and no request handler is running (run_once
\* has no await).
LoopFree == WorkerYielded /\ req.pc = "idle"

\* Lines 171-178.
startup_event ==
  /\ lifecycle = "init"
  /\ stop_background' = FALSE
  /\ IF ENABLE_BACKGROUND
     THEN /\ background_task' = "task"
          /\ worker' = [NoWorker EXCEPT !.pc = "created"]
     ELSE UNCHANGED <<background_task, worker>>
  /\ lifecycle' = "up"
  /\ UNCHANGED <<fs, c, lastRename, replayed, API_KEY, req, scraperVars>>

\* Lines 181-187: the stop flag, the cancellation request, and the await.
shutdown_event ==
  /\ lifecycle = "up"
  /\ LoopFree
  /\ stop_background' = TRUE
  /\ IF background_task # None
     THEN /\ worker' = [worker EXCEPT
                          !.cancel = worker.pc \notin {"cancelled", "returned", "failed"}]
          /\ lifecycle' = "stopping"
     ELSE /\ lifecycle' = "down"
          /\ UNCHANGED worker
  /\ UNCHANGED <<fs, c, lastRename, replayed, API_KEY, background_task, req,
                 scraperVars>>

\* Lines 187-191: the awaited task has ended.  CancelledError is swallowed,
\* another exception of the task leaves the handler before line 190.
shutdown_event_resume ==
  /\ lifecycle = "stopping"
  /\ LoopFree
  /\ worker.pc \in {"cancelled", "returned", "failed"}
  /\ background_task' = IF worker.pc = "failed" THEN background_task ELSE None
  /\ lifecycle' = "down"
  /\ UNCHANGED <<fs, c, lastRename, replayed, API_KEY, stop_background, worker,
                 req, scraperVars>>

\* The task is run for the first time, or asyncio.sleep is over (line 169),
\* and the while test is made (line 147): a poll round starts, or the loop
\* is left.
WorkerRound ==
  /\ LoopFree
  /\ worker.pc \in {"created", "sleep"}
  /\ ~worker.cancel
  /\ worker' = IF stop_background
               THEN [worker EXCEPT !.pc = "returned"]
               ELSE [worker EXCEPT !.pc = "fetch", !.i = 1, !.seen = {}, !.errs = 0]
  /\ UNCHANGED <<fs, c, lastRename, replayed, API_KEY, stop_background,
                 background_task, lifecycle, req, scraperVars>>

\* The cancelled task is resumed: CancelledError is raised at the await (or
\* before the first step) and ends the task.
WorkerCancelled ==
  /\ LoopFree
  /\ worker.pc \in {"created", "sleep"}
  /\ worker.cancel
  /\ worker' = [worker EXCEPT !.pc = "cancelled"]
  /\ UNCHANGED <<fs, c, lastRename, replayed, API_KEY, stop_background,
                 background_task, lifecycle, req, scraperVars>>

\* The for loop goes on (line 149): the next ticker, or after the last one
\* the sleep (lines 167-169).
NextTicker(w) ==
  IF w.i < Len(TICKERS)
  THEN [w EXCEPT !.i = w.i + 1, !.pc = "fetch"]
  ELSE [w EXCEPT !.pc = "sleep"]

\* Lines 165-166: a write error is printed and the loop goes on.
OnWriteErrorRaise(w) == [w EXCEPT !.pc = "failed"]
OnWriteError(w) == NextTicker(w)

\* Lines 150-162: the fetch for ticker i raises (swallowed, lines 152-155),
\* gives None (line 157), or gives a candle with which the writer is entered.
WorkerFetch ==
  /\ worker.pc = "fetch"
  /\ LET tk == TICKERS[worker.i]
         w == [worker EXCEPT !.seen = @ \cup {worker.i}]
     IN \/ /\ worker' = NextTicker([w EXCEPT !.errs = @ + 1])
           /\ UNCHANGED <<fs, c, lastRename>>
        \/ /\ worker' = NextTicker(w)
           /\ UNCHANGED <<fs, c, lastRename>>
        \/ \E d \in Dates, v \in Vals :
              /\ CallOn(2, ticker_fname(tk), OneRow(d, v))
              /\ worker' = [w EXCEPT !.pc = "append"]
  /\ UNCHANGED <<replayed, API_KEY, stop_background, background_task, lifecycle,
                 req, scraperVars>>

\* Lines 162-166: the writer has returned or raised; its locals are gone.
WorkerAfterAppend ==
  /\ worker.pc = "append"
  /\ c[2].pc \in {"done", "raised"}
  /\ worker' = IF c[2].pc = "raised"
               THEN OnWriteError([worker EXCEPT !.errs = @ + 1])
               ELSE NextTicker(worker)
  /\ c' = [c EXCEPT ![2] = IdleCaller]
  /\ UNCHANGED <<fs, lastRename, replayed, API_KEY, stop_background,
                 background_task, lifecycle, req, scraperVars>>

\* Lines 117-131: a request for a ticker with a key.  It is refused with
\* 403, or goes to the fetch, which raises (500, line 125), gives None (line
\* 127), or gives a candle with which the writer is entered.
run_once ==
  /\ lifecycle = "up"
  /\ LoopFree
  /\ \E ticker \in RequestTickers, key \in RequestKeys :
       LET r == [NoRequest EXCEPT !.ticker = ticker, !.key = key]
       IN IF Denied(key)
          THEN /\ req' = [r EXCEPT !.pc = "answered", !.status = 403]
               /\ UNCHANGED <<fs, c, lastRename>>
          ELSE \/ /\ req' = [r EXCEPT !.pc = "answered", !.status = 500,
                                       !.fetched = TRUE]
                  /\ UNCHANGED <<fs, c, lastRename>>
               \/ /\ req' = [r EXCEPT !.pc = "answered", !.status = 200,
                                       !.fetched = TRUE]
                  /\ UNCHANGED <<fs, c, lastRename>>
               \/ \E d \in Dates, v \in Vals :
                     /\ CallOn(1, ticker_fname(ticker), OneRow(d, v))
                     /\ req' = [r EXCEPT !.pc = "append", !.fetched = TRUE]
  /\ UNCHANGED <<replayed, API_KEY, stop_background, background_task, lifecycle,
                 worker, scraperVars>>

\* Lines 131-132: the writer has returned (200), or its exception leaves the
\* handler (500); its locals are gone.
run_once_return ==
  /\ req.pc = "append"
  /\ c[1].pc \in {"done", "raised"}
  /\ req' = [req EXCEPT !.pc = "answered",
                        !.status = IF c[1].pc = "raised" THEN 500 ELSE 200]
  /\ c' = [c EXCEPT ![1] = IdleCaller]
  /\ UNCHANGED <<fs, lastRename, replayed, API_KEY, stop_background,
                 background_task, lifecycle, worker, scraperVars>>

\* The response has been sent; the handler is free for the next request.
Respond ==
  /\ req.pc = "answered"
  /\ req' = NoRequest
  /\ UNCHANGED <<fs, c, lastRename, replayed, API_KEY, stop_background,
                 background_task, lifecycle, worker, scraperVars>>

\* ------------------------------------------------------------ the scraper
\* src/test.py: the wide CSV file is a sequence of rows of text cells, or
\* does not exist.
NoFile == [exists |-> FALSE, rows |-> <<>>]

\* Line 160: the company names of COMPANY_PAGES, in their order.
company_names == <<"X", "Y">>

\* get_now_iso() at the k-th poll: the clock goes forward.
get_now_iso(k) == <<"t1", "t2", "t3", "t4", "t5">>[k]

\* "{:.2f}".format(price)
Format2f(price) == <<"1.00", "2.00", "3.00", "4.00">>[price]

\* What fetch_price_for_company gives for a company (lines 131-144): no
\* price (the fetch or the parse failed), or a price.
FetchOutcomes ==
  {[none |-> TRUE, price |-> 0]} \cup {[none |-> FALSE, price |-> v] : v \in Vals}

\* Lines 148-152: the header row is written when the file does not exist.
ensure_csv_header(file) ==
  IF ~file.exists
  THEN [exists |-> TRUE, rows |-> <<(<<"timestamp">> \o company_names)>>]
  ELSE file

\* Lines 155-157: the file is opened for appending and one row is written.
append_row_to_csv(file, row) == [exists |-> TRUE, rows |-> Append(file.rows, row)]

\* Lines 178-186: the timestamp, then for every name of the header in its
\* order the price with two decimals, or a blank cell when there is none.
build_row_skipping(ts, results) ==
  <<ts>> \o SelectSeq([i \in 1..Len(company_names) |->
                         IF results[company_names[i]].none THEN ""
                         ELSE Format2f(results[company_names[i]].price)],
                      LAMBDA cell : cell # "")
build_row(ts, results) ==
  <<ts>> \o [i \in 1..Len(company_names) |->
               IF results[company_names[i]].none THEN ""
               ELSE Format2f(results[company_names[i]].price)]

\* main_loop before its first step.
ScraperStart ==
  [pc |-> "start", polls |-> 0, ts |-> "", results |-> <<>>, pending |-> {}]

\* Line 163.
EnsureHeader ==
  /\ scraper.pc = "start"
  /\ csv_file' = ensure_csv_header(csv_file)
  /\ scraper' = [scraper EXCEPT !.pc = "poll"]
  /\ UNCHANGED <<fs, c, lastRename, replayed, serverVars>>

\* Lines 168-172: a poll takes the time and submits one fetch per company.
PollStart ==
  /\ scraper.pc = "poll"
  /\ scraper.polls < MaxPolls
  /\ scraper' = [scraper EXCEPT !.pc = "fetching",
                                !.ts = get_now_iso(scraper.polls + 1),
                                !.results = <<>>,
                                !.pending = 1..Len(company_names)]
  /\ UNCHANGED <<fs, c, lastRename, replayed, serverVars, csv_file>>

\* Lines 173-175: the fetches complete in any order; each result is stored
\* under the company's name.
FutureDone ==
  /\ scraper.pc = "fetching"
  /\ \E i \in scraper.pending, r \in FetchOutcomes :
       scraper' = [scraper EXCEPT
                     !.results = [n \in DOMAIN scraper.results \cup {company_names[i]} |->
                                    IF n = company_names[i] THEN r
                                    ELSE scraper.results[n]],
                     !.pending = @ \ {i}]
  /\ UNCHANGED <<fs, c, lastRename, replayed, serverVars, csv_file>>

\* Lines 177-187 and 195: the row is built and appended, then the sleep.
AppendRow ==
  /\ scraper.pc = "fetching"
  /\ scraper.pending = {}
  /\ csv_file' = append_row_to_csv(csv_file, build_row(scraper.ts, scraper.results))
  /\ scraper' = [scraper EXCEPT !.pc = "poll", !.polls = @ + 1]
  /\ UNCHANGED <<fs, c, lastRename, replayed, serverVars>>

\* ------------------------------------------------------- specifications
\* The destination is absent, or a file the writer cannot read that
\* something else left there.
InitFs ==
  fs \in {[path \in Paths |-> IF path = Fname THEN f ELSE Absent] :
            f \in {Absent, EmptyFile, NoDateFile}}

\* One caller at a time (a single process, a single writer per key).
Init ==
  /\ InitFs
  /\ c = [p \in {1} |-> IdleCaller]
  /\ lastRename = 0
  /\ replayed = NoReplay
  /\ ServerOff
  /\ ScraperOff

Next ==
  \/ \E p \in DOMAIN c : AppendCall(p) /\ UNCHANGED <<serverVars, scraperVars>>
  \/ \E p \in DOMAIN c : Mkstemp(p) /\ UNCHANGED <<serverVars, scraperVars>>
  \/ \E p \in DOMAIN c : WriteChunk(p) /\ UNCHANGED <<serverVars, scraperVars>>
  \/ \E p \in DOMAIN c : WriteFail(p) /\ UNCHANGED <<serverVars, scraperVars>>
  \/ \E p \in DOMAIN c : Replace(p) /\ UNCHANGED <<serverVars, scraperVars>>
  \/ \E p \in DOMAIN c : ReplaceFail(p) /\ UNCHANGED <<serverVars, scraperVars>>
  \/ \E p \in DOMAIN c : Finally(p) /\ UNCHANGED <<serverVars, scraperVars>>
  \/ \E p \in DOMAIN c : Crash(p) /\ UNCHANGED <<serverVars, scraperVars>>

Spec == Init /\ [][Next]_vars

\* Two processes serve /run for the same ticker at once; their steps
\* interleave freely.
InitRace ==
  /\ InitFs
  /\ c = [p \in Callers |-> IdleCaller]
  /\ lastRename = 0
  /\ replayed = NoReplay
  /\ ServerOff
  /\ ScraperOff

NextRace ==
  \/ \E p \in DOMAIN c : RunOnceCall(p) /\ UNCHANGED <<serverVars, scraperVars>>
  \/ \E p \in DOMAIN c : Mkstemp(p) /\ UNCHANGED <<serverVars, scraperVars>>
  \/ \E p \in DOMAIN c : WriteChunk(p) /\ UNCHANGED <<serverVars, scraperVars>>
  \/ \E p \in DOMAIN c : Replace(p) /\ UNCHANGED <<serverVars, scraperVars>>
  \/ \E p \in DOMAIN c : Finally(p) /\ UNCHANGED <<serverVars, scraperVars>>

SpecRace == InitRace /\ [][NextRace]_vars

\* One caller of /run whose calls can fail at the write, at the replace and
\* at the removal of the temp file.
NextFault ==
  \/ \E p \in DOMAIN c : RunOnceCall(p) /\ UNCHANGED <<serverVars, scraperVars>>
  \/ \E p \in DOMAIN c : Mkstemp(p) /\ UNCHANGED <<serverVars, scraperVars>>
  \/ \E p \in DOMAIN c : WriteChunk(p) /\ UNCHANGED <<serverVars, scraperVars>>
  \/ \E p \in DOMAIN c : WriteFail(p) /\ UNCHANGED <<serverVars, scraperVars>>
  \/ \E p \in DOMAIN c : Replace(p) /\ UNCHANGED <<serverVars, scraperVars>>
  \/ \E p \in DOMAIN c : ReplaceFail(p) /\ UNCHANGED <<serverVars, scraperVars>>
  \/ \E p \in DOMAIN c : Finally(p) /\ UNCHANGED <<serverVars, scraperVars>>
  \/ \E p \in DOMAIN c : FinallyRemoveFails(p) /\ UNCHANGED <<serverVars, scraperVars>>

SpecFault == Init /\ [][NextFault]_vars

\* The server process: the module is imported with some API_KEY and no
\* table files; caller 1 is the /run handler, caller 2 the background
\* worker.
InitServer ==
  /\ fs = [path \in Paths |-> Absent]
  /\ c = [p \in Callers |-> IdleCaller]
  /\ lastRename = 0
  /\ replayed = NoReplay
  /\ API_KEY \in ApiKeys
  /\ stop_background = FALSE
  /\ background_task = None
  /\ lifecycle = "init"
  /\ worker = NoWorker
  /\ req = NoRequest
  /\ ScraperOff

NextServer ==
  \/ startup_event
  \/ shutdown_event
  \/ shutdown_event_resume
  \/ WorkerRound
  \/ WorkerCancelled
  \/ WorkerFetch
  \/ WorkerAfterAppend
  \/ run_once
  \/ run_once_return
  \/ Respond
  \/ \E p \in DOMAIN c : Mkstemp(p) /\ UNCHANGED <<serverVars, scraperVars>>
  \/ \E p \in DOMAIN c : WriteChunk(p) /\ UNCHANGED <<serverVars, scraperVars>>
  \/ \E p \in DOMAIN c : WriteFail(p) /\ UNCHANGED <<serverVars, scraperVars>>
  \/ \E p \in DOMAIN c : Replace(p) /\ UNCHANGED <<serverVars, scraperVars>>
  \/ \E p \in DOMAIN c : ReplaceFail(p) /\ UNCHANGED <<serverVars, scraperVars>>
  \/ \E p \in DOMAIN c : Finally(p) /\ UNCHANGED <<serverVars, scraperVars>>

SpecServer == InitServer /\ [][NextServer]_vars

\* The scraper is started with no file, or with the file an earlier run
\* with the same companies left.
InitScraper ==
  /\ fs = [path \in Paths |-> Absent]
  /\ c = [p \in {1} |-> IdleCaller]
  /\ lastRename = 0
  /\ replayed = NoReplay
  /\ ServerOff
  /\ csv_file \in {NoFile,
                    [exists |-> TRUE,
                     rows |-> <<(<<"timestamp">> \o company_names),
                                <<"t0", "1.00", "">> >>]}
  /\ scraper = ScraperStart

NextScraper ==
  \/ EnsureHeader
  \/ PollStart
  \/ FutureDone
  \/ AppendRow

SpecScraper == InitScraper /\ [][NextScraper]_vars

\* The steps of the writer for caller p, inside the server.
WriterStep(p) ==
  /\ \/ Mkstemp(p) \/ WriteChunk(p) \/ WriteFail(p)
     \/ Replace(p) \/ ReplaceFail(p) \/ Finally(p)
  /\ UNCHANGED <<serverVars, scraperVars>>

\* The server with its worker and no /run traffic.
InitWorker == InitServer /\ API_KEY = None

NextWorker ==
  \/ startup_event
  \/ shutdown_event
  \/ shutdown_event_resume
  \/ WorkerRound
  \/ WorkerCancelled
  \/ WorkerFetch
  \/ WorkerAfterAppend
  \/ WriterStep(2)

\* Code that is running goes on running (the worker between two sleeps),
\* and the event loop resumes the task when its sleep is over.
WorkerProgress == WorkerFetch \/ WorkerAfterAppend \/ WriterStep(2)

SpecWorkerLive ==
  /\ InitWorker
  /\ [][NextWorker]_vars
  /\ WF_vars(WorkerProgress)
  /\ WF_vars(WorkerRound)

\* ------------------------------------------------------------ the claims
\* The table file of the key, and what the claims read off a file.
Table == fs[Fname]
TextDate(d) == IF d = NaN THEN EmptyText ELSE d
DatesOf(f) == {f.rows[i].date : i \in 1..Len(f.rows)}
RowsFor(f, t) == {i \in 1..Len(f.rows) : f.rows[i].date = t}
ValsFor(f, t) == {f.rows[i].val : i \in RowsFor(f, t)}
AtRest(p) == c[p].pc \in {"idle", "done", "raised"} /\ ~c[p].crashed
NoTmpFile == \A t \in TmpPaths : fs[t] = Absent

\* C1: a call with the one-row batch [r], r's date absent from the table,
\* followed by the same call again: the first returns 1, the second returns
\* 0, and the table then holds exactly one row of r's date.
Idempotence ==
  LET s == c[1]
  IN (s.pc = "done" /\ replayed.replay /\ replayed.firstFresh
        /\ Len(s.row_df) = 1)
       => /\ replayed.firstRet = 1
          /\ s.ret = 0
          /\ Cardinality(RowsFor(Table, TextDate(s.row_df[1].date))) = 1

IdempotenceWitness ==
  LET s == c[1]
  IN /\ s.pc = "done" /\ replayed.replay /\ replayed.firstFresh
     /\ Len(s.row_df) = 1
     /\ s.row_df[1].date # NaN
     /\ s.pre.header = "date" /\ Len(s.pre.rows) = 2
     /\ s.ret = 0

\* A candidate row of a completed call whose date the table already held
\* with other field values.
Rewrites(s, i) ==
  /\ s.pc = "done"
  /\ i \in 1..Len(s.row_df)
  /\ s.row_df[i].date # NaN
  /\ \E v \in ValsFor(s.pre, TextDate(s.row_df[i].date)) : v # s.row_df[i].val

\* C2 as stated: after the call the row stored for the candidate's date
\* carries the candidate's field values.
LastWriteWins ==
  LET s == c[1]
  IN \A i \in 1..Len(s.row_df) :
       Rewrites(s, i) =>
         ValsFor(Table, TextDate(s.row_df[i].date)) = {s.row_df[i].val}

\* C2 amended: after the call the rows stored for the candidate's date carry
\* field values that were stored for that date before the call; the
\* candidate is filtered out as already present.
ExistingRowWins ==
  LET s == c[1]
  IN \A i \in 1..Len(s.row_df) :
       Rewrites(s, i) =>
         /\ ValsFor(Table, TextDate(s.row_df[i].date)) # {}
         /\ ValsFor(Table, TextDate(s.row_df[i].date))
              \subseteq ValsFor(s.pre, TextDate(s.row_df[i].date))

ExistingRowWinsWitness ==
  LET s == c[1]
  IN /\ Rewrites(s, 1)
     /\ s.nrep = 1
     /\ Table # s.pre

\* C3: at rest the table holds at most one row per date.
UniqueDates ==
  (AtRest(1) /\ Table.header = "date")
    => \A i, j \in 1..Len(Table.rows) :
         (Table.rows[i].date = Table.rows[j].date
            /\ Table.rows[i].date # EmptyText) => i = j

\* C4: at rest the stored rows are in non-decreasing date order.
SortedByDate ==
  (AtRest(1) /\ Table.header = "date")
    => \A i, j \in 1..Len(Table.rows) :
         (i < j /\ Table.rows[i].date # EmptyText /\ Table.rows[j].date # EmptyText)
           => Table.rows[i].date <= Table.rows[j].date

\* C5: at every step of a call, and after the process is killed at any of
\* them, the destination is exactly its pre-call content (absent for a first
\* write) or exactly the complete merged table; the replace is the one step
\* that changes it.
CrashAtomicity ==
  LET s == c[1]
  IN s.pc # "idle"
       => /\ s.nrep \in {0, 1}
          /\ s.nrep = 0 => Table = s.pre
          /\ s.nrep = 1 => Table = Output(1)

CrashAtomicityWitness ==
  LET s == c[1]
  IN /\ s.crashed /\ s.pc = "write"
     /\ s.nw = 2 /\ NumLines(Output(1)) = 3
     /\ fs[s.tmp_path] = Prefix(Output(1), 2)
     /\ s.pre.header = "date"
     /\ Table = s.pre

\* C6: when the destination exists and cannot be read as a table, the call
\* ends with an error, creates no temp file, writes and replaces nothing,
\* and the destination keeps its pre-call content.
FailClosed ==
  LET s == c[1]
  IN (s.pc # "idle" /\ s.pre # Absent /\ s.pre.header # "date")
       => /\ s.pc = "raised" /\ s.exc
          /\ s.ntmp = 0 /\ s.nw = 0 /\ s.nrep = 0
          /\ NoTmpFile
          /\ Table = s.pre

FailClosedWitness ==
  LET s == c[1]
  IN s.pc = "raised" /\ s.pre = NoDateFile /\ Len(s.row_df) = 2

\* C7: a completed call with the batch [valid row of a new date, row without
\* date] returns 1, stores the valid row and stores no row without date.
PartialBatch ==
  LET s == c[1]
  IN (/\ s.pc = "done" /\ Len(s.row_df) = 2
      /\ s.row_df[1].date # NaN
      /\ s.row_df[1].date \notin DatesOf(s.pre)
      /\ s.row_df[2].date = NaN)
       => /\ s.ret = 1
          /\ s.row_df[1].date \in DatesOf(Table)
          /\ Cardinality(RowsFor(Table, EmptyText))
               = Cardinality(RowsFor(s.pre, EmptyText))

\* C8: the number a completed call returns is the number of dates that are
\* in the table after the call and were not in it before.
ReturnedCount ==
  LET s == c[1]
  IN (s.pc = "done" /\ \A i \in 1..Len(s.row_df) : s.row_df[i].date # NaN)
       => s.ret = Cardinality(DatesOf(Table) \ DatesOf(s.pre))

\* Whether every candidate date of the call is in the pre-call table.
AllPresent(s) ==
  \A i \in 1..Len(s.row_df) : TextDate(s.row_df[i].date) \in DatesOf(s.pre)

\* C9: a call all of whose candidate dates are already in the table returns
\* 0 without creating a temp file or replacing, and leaves the destination
\* as it was; a call that returns with a new candidate date has done exactly
\* one replace.
NoWriteOnReplay ==
  LET s == c[1]
  IN /\ (s.pc \notin {"idle", "raised"} /\ AllPresent(s))
          => /\ s.pc = "done" /\ s.ret = 0
             /\ s.ntmp = 0 /\ s.nw = 0 /\ s.nrep = 0
             /\ NoTmpFile
             /\ Table = s.pre
     /\ (s.pc = "done" /\ ~AllPresent(s))
          => s.ntmp = 1 /\ s.nrep = 1 /\ s.ret >= 1

NoWriteOnReplayWitness ==
  LET s == c[1]
  IN /\ s.pc = "done" /\ AllPresent(s) /\ Len(s.row_df) = 2
     /\ s.row_df[1].date # s.row_df[2].date
     /\ ~replayed.replay

\* Two completed calls that read the same table and both returned a count.
Raced(p, q) ==
  /\ p # q
  /\ c[p].pc = "done" /\ c[q].pc = "done"
  /\ c[p].ret >= 1 /\ c[q].ret >= 1
  /\ c[p].hadFile = c[q].hadFile /\ c[p].existing = c[q].existing
  /\ lastRename = q

\* The dates of a frame, as the texts to_csv writes.
FrameDates(frame) == {TextDate(frame[i].date) : i \in 1..Len(frame)}

\* C10: when two interleaved calls read the same pre-call table and both
\* return a count of at least 1, the table holds the dates the calls read
\* and the new dates of the call that renamed last, and so lacks every new
\* date of the call that renamed first which the last one did not bring
\* itself.
LostUpdate ==
  \A p, q \in DOMAIN c :
     Raced(p, q)
       => /\ DatesOf(Table)
               = FrameDates(c[q].existing) \cup FrameDates(c[q].new_rows)
          /\ \A i \in 1..Len(c[p].new_rows) :
               (\A j \in 1..Len(c[q].new_rows) :
                   c[q].new_rows[j].date # c[p].new_rows[i].date)
                 => TextDate(c[p].new_rows[i].date) \notin DatesOf(Table)

LostUpdateWitness ==
  \E p, q \in DOMAIN c :
     /\ Raced(p, q)
     /\ c[p].hadFile
     /\ c[p].new_rows[1].date # c[q].new_rows[1].date
     /\ TextDate(c[p].new_rows[1].date) \notin DatesOf(Table)
     /\ TextDate(c[q].new_rows[1].date) \in DatesOf(Table)

\* C11: in every interleaving of two calls on one key, callers that hold a
\* temp file hold different ones, and the destination is at every step a
\* whole table: the content from before the calls while nobody has renamed,
\* and afterwards the complete output of the call that renamed last (which
\* is the pre-call table of that caller's next call); never a partial file
\* and never the lines of two writers.
NoMalformedTable ==
  /\ \A p, q \in DOMAIN c :
       (p # q /\ c[p].pc \in {"write", "replace"}
              /\ c[q].pc \in {"write", "replace"})
         => c[p].tmp_path # c[q].tmp_path
  /\ lastRename = 0
       => \A p \in DOMAIN c : c[p].pc # "idle" => Table = c[p].pre
  /\ \A q \in DOMAIN c :
       lastRename = q
         => \/ c[q].nrep = 1 /\ Table = Output(q)
            \/ c[q].nrep = 0 /\ c[q].pc # "idle" /\ Table = c[q].pre

NoMalformedTableWitness ==
  \E p, q \in DOMAIN c :
     /\ p # q
     /\ lastRename = q /\ c[q].nrep = 1 /\ c[q].pc = "done"
     /\ c[p].pc = "write" /\ c[p].nw = 1
     /\ c[p].hadFile /\ c[p].pre # Table
     /\ fs[c[p].tmp_path] = Prefix(Output(p), 1)
     /\ Len(Table.rows) = 2

\* C14: when a call in which to_csv or os.replace failed hands control back,
\* its temp file is gone and the destination has its pre-call content; and
\* when a call that replaced hands control back, its temp file is gone.
CleanupOnFailure ==
  LET s == c[1]
  IN /\ (s.pc = "raised" /\ s.ntmp = 1)
          => ~Exists(s.tmp_path) /\ fs[s.fname] = s.pre
     /\ (s.pc = "done" /\ s.nrep = 1) => ~Exists(s.tmp_path)

\* C13: no step of any call, whether the call succeeds, returns 0 or fails,
\* takes a date out of the table: the dates stored after the step include
\* the dates stored before it.
MonotoneGrowth == [][DatesOf(Table) \subseteq DatesOf(Table')]_vars

MonotoneGrowthWitness ==
  LET s == c[1]
  IN /\ s.pc = "done" /\ s.hadFile /\ s.nrep = 1
     /\ DatesOf(s.pre) # {}
     /\ DatesOf(s.pre) \subseteq DatesOf(Table)
     /\ DatesOf(s.pre) # DatesOf(Table)

\* C15: after a completed call on an existing table, none of whose candidate
\* dates the table held, every row the table held before the call is in the
\* table with its date and its field value.
ExistingRowsPreserved ==
  LET s == c[1]
  IN (/\ s.pc = "done" /\ s.hadFile
      /\ \A i \in 1..Len(s.row_df) :
            /\ s.row_df[i].date # NaN
            /\ s.row_df[i].date \notin DatesOf(s.pre))
       => \A i \in 1..Len(s.pre.rows) :
            s.pre.rows[i].date # EmptyText
              => \E j \in 1..Len(Table.rows) : Table.rows[j] = s.pre.rows[i]

\* C16: starting from no file, the file exists between calls exactly when
\* some call has replaced it (and so returned a count above 0); the call that
\* finds no file and returns a count above 0 creates it as the header and
\* its new rows, and a call that finds no file and returns 0 or ends with an
\* error leaves none.
LazyCreation ==
  LET s == c[1]
  IN /\ (AtRest(1) /\ Table.header \in {"absent", "date"})
          => (Exists(Fname) <=> lastRename # 0)
     /\ (s.pc = "done" /\ s.pre = Absent /\ s.ret > 0)
          => /\ s.nrep = 1
             /\ Table.header = "date"
             /\ Len(Table.rows) = Len(s.row_df)
             /\ \A i \in 1..Len(s.row_df) :
                  /\ Table.rows[i].date = TextDate(s.row_df[i].date)
                  /\ Table.rows[i].val = s.row_df[i].val
     /\ (s.pre = Absent /\ (s.pc = "raised" \/ (s.pc = "done" /\ s.ret = 0)))
          => s.nrep = 0 /\ Table = Absent

LazyCreationWitness ==
  LET s == c[1]
  IN /\ s.pc = "done" /\ s.pre = Absent /\ s.ret = 2
     /\ Len(Table.rows) = 2 /\ lastRename = 1


\* C12: while a request appends for the ticker k1, the table file of every
\* other ticker k2 stays as it is.
KeyIndependence ==
  [][\A k1, k2 \in RequestTickers :
       (k1 # k2 /\ req.pc = "append" /\ req.ticker = k1)
         => fs'[ticker_fname(k2)] = fs[ticker_fname(k2)]]_vars

\* C17: a cancellation is requested, and takes effect, only while the worker
\* is suspended outside the writer; once shutdown_event has run the stop flag
\* is set; when it has completed the task has ended, background_task is None,
\* and the worker takes no further step and no file changes.
WorkerShutdown ==
  /\ [](/\ worker.cancel
             => /\ worker.pc \in {"created", "sleep", "cancelled"}
                /\ c[2] = IdleCaller
        /\ lifecycle \in {"stopping", "down"} => stop_background
        /\ lifecycle = "down"
             => /\ background_task = None
                /\ worker.pc \in {"cancelled", "returned"}
                /\ c[2] = IdleCaller)
  /\ [][lifecycle = "down" => (worker' = worker /\ c' = c /\ fs' = fs)]_vars

WorkerShutdownWitness ==
  /\ lifecycle = "down" /\ worker.pc = "cancelled" /\ background_task = None
  /\ Len(fs[ticker_fname(TICKERS[1])].rows) = 2
  /\ Len(fs[ticker_fname(TICKERS[2])].rows) = 1

\* C19: with API_KEY set (to a non-empty string) a request whose key is
\* missing or differs is answered 403 without a fetch and without entering
\* the writer, and the step that refuses it changes no file; with API_KEY not
\* set, or with the right key, the request goes to the fetch.
ApiKeyGate ==
  /\ [](/\ (req.pc # "idle" /\ Truthy(API_KEY) /\ req.key # API_KEY)
             => /\ req.pc = "answered" /\ req.status = 403
                /\ ~req.fetched
                /\ c[1] = IdleCaller
        /\ (req.pc # "idle" /\ ~(Truthy(API_KEY) /\ req.key # API_KEY))
             => req.fetched /\ req.status # 403)
  /\ [][(req.pc = "idle" /\ req'.status = 403) => fs' = fs]_vars

ApiKeyGateWitness ==
  /\ API_KEY = "k" /\ req.key = "x" /\ req.status = 403
  /\ req.ticker = TICKERS[1]
  /\ Len(fs[ticker_fname(TICKERS[1])].rows) = 1

\* C18: no fetch error and no write error ends the worker: when the worker
\* reaches its sleep it has taken up every ticker of the round, and after a
\* round with an error a new round starts unless the stop flag is set.
WorkerIsolation ==
  /\ [](/\ worker.pc # "failed"
        /\ worker.pc = "sleep" => worker.seen = 1..Len(TICKERS))
  /\ (worker.errs > 0)
       ~> ((worker.pc = "fetch" /\ worker.i = 1 /\ worker.errs = 0)
             \/ stop_background)

WorkerIsolationWitness ==
  /\ worker.pc = "append" /\ worker.i = 2 /\ worker.errs = 1
  /\ c[2].pc = "write" /\ c[2].hadFile
  /\ ~stop_background

\* C20: ensure_csv_header leaves a file that exists as it is and writes the
\* header row (the timestamp label and the N company names) otherwise; each
\* poll appends exactly one row: the poll's timestamp, then for each company
\* in header order its price, or a blank cell when it has none; and so the
\* file is at all times the header row followed by rows of 1+N cells.
WideCsvShape ==
  /\ [](scraper.pc # "start"
          => /\ csv_file.exists
             /\ csv_file.rows[1] = <<"timestamp">> \o company_names
             /\ \A k \in 2..Len(csv_file.rows) :
                  /\ Len(csv_file.rows[k]) = 1 + Len(company_names)
                  /\ csv_file.rows[k][1] # "timestamp")
  /\ [][(scraper.pc = "start" /\ csv_file.exists) => csv_file' = csv_file]_vars
  /\ [][scraper'.polls # scraper.polls
          => /\ Len(csv_file'.rows) = Len(csv_file.rows) + 1
             /\ SubSeq(csv_file'.rows, 1, Len(csv_file.rows)) = csv_file.rows
             /\ LET row == csv_file'.rows[Len(csv_file'.rows)]
                IN /\ Len(row) = 1 + Len(company_names)
                   /\ row[1] = scraper.ts
                   /\ \A i \in 1..Len(company_names) :
                        LET r == scraper.results[company_names[i]]
                        IN row[1 + i] = IF r.none THEN "" ELSE Format2f(r.price)]_vars
  /\ [][scraper'.polls = scraper.polls
          => (scraper.pc = "start" \/ csv_file' = csv_file)]_vars

WideCsvShapeWitness ==
  /\ scraper.polls = 2 /\ scraper.pc = "poll"
  /\ Len(csv_file.rows) = 3
  /\ csv_file.rows[2] = <<"t1", "", "2.00">>
  /\ csv_file.rows[3] = <<"t2", "1.00", "">>

====
